---- MODULE Spec2Model ----
(***************************************************************************)
(* The worker of runtime/worker.js: the message handler that drives the    *)
(* emulation core one frame at a time, the tape-load trap (trapTapeLoad)   *)
(* and the snapshot / memory-page loaders.                                 *)
(*                                                                         *)
(* JavaScript runs one message handler to completion before the next       *)
(* message is looked at.  The runFrame handler calls the core repeatedly   *)
(* (core.runFrame, core.resumeFrame); the handler's position between those *)
(* calls is the variable hpc, and no other handler is enabled unless       *)
(* hpc = "idle".                                                           *)
(***************************************************************************)
EXTENDS Integers, Sequences, FiniteSets, TLC

VARIABLES
    stopped,      \* worker.js:11   let stopped
    tape,         \* worker.js:12   let tape (with the tape's read position)
    registerPairs,\* worker.js:8    Uint16Array view of the 12 register pairs
    mem,          \* the Z80 address space written through core.poke
    core,         \* the remaining core state the worker sets (PC, IFF, ...)
    memoryData,   \* worker.js:6    machine memory pages, relative to MACHINE_MEMORY
    hpc,          \* position of the runFrame handler
    status,       \* worker.js:117  let status
    cur,          \* the message being handled (or handled last)
    calls,        \* what the current handler did to the core, in program order
    trap,         \* locals of the trapTapeLoad invocation that has just returned
    outbox,       \* messages posted to the caller, oldest first
    nMsgs,        \* messages taken from the queue so far
    nTraps,       \* trap statuses seen in the current frame
    trdosDisk,    \* worker.js:9    the disk image buffer, as runs of equal bytes
    accepted      \* frame buffers of the runFrame requests not dropped, in order

vars == <<stopped, tape, registerPairs, mem, core, memoryData, hpc, status,
          cur, calls, trap, outbox, nMsgs, nTraps, trdosDisk, accepted>>

-----------------------------------------------------------------------------
(* Bounds of the model *)

MaxBlockLen == 4        \* longest tape block drawn for the trap
MaxReq == 3             \* largest in-range requested byte count (DE)
MaxMsgs == 3            \* messages handled in one behaviour
MaxTrapsPerFrame == 2   \* trap statuses the core reports within one frame

-----------------------------------------------------------------------------
(* Bit operations on non-negative integers, as JavaScript's ^ & | on them *)

RECURSIVE BitXor(_, _)
BitXor(a, b) ==
    IF a = 0 THEN b
    ELSE IF b = 0 THEN a
    ELSE (((a % 2) + (b % 2)) % 2) + 2 * BitXor(a \div 2, b \div 2)

RECURSIVE BitAnd(_, _)
BitAnd(a, b) ==
    IF a = 0 \/ b = 0 THEN 0
    ELSE ((a % 2) * (b % 2)) + 2 * BitAnd(a \div 2, b \div 2)

RECURSIVE BitOr(_, _)
BitOr(a, b) ==
    IF a = 0 THEN b
    ELSE IF b = 0 THEN a
    ELSE (IF a % 2 = 1 \/ b % 2 = 1 THEN 1 ELSE 0) + 2 * BitOr(a \div 2, b \div 2)

\* A store into a Uint16Array element keeps the low 16 bits.
ToUint16(v) == v % 65536

-----------------------------------------------------------------------------
(* Register slots and the sparse memory image *)

SlotAF == 0
SlotDE == 2
SlotAF_ == 4
SlotIX == 8
NumRegisterPairs == 12

\* Memory is kept as the finite function of the cells that were written;
\* every other cell holds MemFill.
MemFill == 0
Peek(m, a) == IF a \in DOMAIN m THEN m[a] ELSE MemFill
Poke(m, a, b) == [x \in (DOMAIN m) \cup {a} |-> IF x = a THEN b ELSE m[x]]
EmptyMem == [x \in {} |-> 0]

\* One entry of the log of what a handler did, in program order.
Call(op, a, b) == [op |-> op, a |-> a, b |-> b]

-----------------------------------------------------------------------------
(* The tape source (runtime/tape.js is not part of the sources at hand: a   *)
(* tape is the sequence of its blocks and the index of the next one, and it *)
(* hands its blocks out once each, in order, then reports exhaustion).      *)

NoTape == [attached |-> FALSE, blocks |-> <<>>, next |-> 0]
NewTape(blocks) == [attached |-> TRUE, blocks |-> blocks, next |-> 0]

\* tape.getNextLoadableBlock(): is there a block to hand out, which, and the
\* tape afterwards.
HasNextBlock(tp) == tp.next < Len(tp.blocks)
NextBlock(tp) == tp.blocks[tp.next + 1]
AfterNextBlock(tp) == [tp EXCEPT !.next = tp.next + 1]

-----------------------------------------------------------------------------
(* trapTapeLoad, worker.js:42-96 *)

\* JavaScript's undefined, as a value that is no byte.
Undefined == -1

TrapExitPC == 1506     \* 0x05e2

ExpectedBlockType(af_) == af_ \div 256

\* The load flag read from bit 1 instead of bit 0.
ShouldLoadBit1(af_) == BitAnd(af_, 2) # 0

ShouldLoad(af_) == BitAnd(af_, 1) # 0

\* block[offset]: undefined past the end of the block.
ByteAt(block, offset) ==
    IF offset < Len(block) THEN block[offset + 1] ELSE Undefined

ActualBlockType(block) == ByteAt(block, 0)

BlockTypeMismatch(expectedBlockType, actualBlockType) ==
    expectedBlockType # actualBlockType

OutOfBytes(offset, block) == offset >= Len(block)

\* An address incremented without the 16-bit mask.
NextAddrNoWrap(addr) == addr + 1

NextAddr(addr) == BitAnd(addr + 1, 65535)

\* A checksum kept as a byte sum instead of an exclusive or.
ChecksumStepSum(checksum, byte) == (checksum + byte) % 256

ChecksumStep(checksum, byte) == BitXor(checksum, byte)

\* The while loop of worker.js:63-74.  l holds the locals offset, loadedBytes,
\* addr, checksum and success, the memory and the pokes made so far.
RECURSIVE CopyLoop(_, _, _)
CopyLoop(block, requestedLength, l) ==
    IF ~(l.loadedBytes < requestedLength) THEN l
    ELSE IF OutOfBytes(l.offset, block) THEN [l EXCEPT !.success = FALSE]
    ELSE LET byte == ByteAt(block, l.offset)
         IN  CopyLoop(block, requestedLength,
                 [offset      |-> l.offset + 1,
                  loadedBytes |-> l.loadedBytes + 1,
                  addr        |-> NextAddr(l.addr),
                  checksum    |-> ChecksumStep(l.checksum, byte),
                  success     |-> l.success,
                  mem         |-> Poke(l.mem, l.addr, byte),
                  calls       |-> Append(l.calls, Call("poke", l.addr, byte))])

ChecksumPresent(offset, block) == offset < Len(block)

\* A load that does not compare the checksum byte.
ChecksumIgnored(checksum, block, offset) == TRUE

ChecksumMatches(checksum, block, offset) == checksum = ByteAt(block, offset)

\* A checksum that starts from zero instead of the block type.
InitialChecksumZero(actualBlockType) == 0

\* worker.js:62: let checksum = actualBlockType.
InitialChecksum(actualBlockType) == actualBlockType

\* The load branch, worker.js:60-81.
LoadBlock(block, addr, requestedLength, actualBlockType, m) ==
    LET l == CopyLoop(block, requestedLength,
                 [offset |-> 1, loadedBytes |-> 0, addr |-> addr,
                  checksum |-> InitialChecksum(actualBlockType),
                  success |-> TRUE,
                  mem |-> m, calls |-> <<>>])
        present == l.success /\ ChecksumPresent(l.offset, block)
    IN  [l EXCEPT !.success =
             IF present THEN ChecksumMatches(l.checksum, block, l.offset)
             ELSE FALSE]

\* The verify branch, worker.js:82-85: nothing is read or written.
VerifyBlock(block, addr, actualBlockType, m) ==
    [offset |-> 0, loadedBytes |-> 0, addr |-> addr,
     checksum |-> actualBlockType, success |-> TRUE, mem |-> m, calls |-> <<>>]

\* A mismatching block that is copied before it is rejected.
RejectBlockCopies(block, addr, actualBlockType, m) ==
    [CopyLoop(block, 1,
         [offset |-> 1, loadedBytes |-> 0, addr |-> addr,
          checksum |-> actualBlockType, success |-> TRUE,
          mem |-> m, calls |-> <<>>]) EXCEPT !.success = FALSE]

\* The mismatch branch, worker.js:56-57.
RejectBlock(block, addr, actualBlockType, m) ==
    [offset |-> 0, loadedBytes |-> 0, addr |-> addr,
     checksum |-> actualBlockType, success |-> FALSE, mem |-> m, calls |-> <<>>]

\* A success that writes the carry bit alone, dropping the other bits of AF.
SetCarryOnly(af) == 1

SetCarry(af) == ToUint16(BitOr(af, 1))

\* A failure that leaves the carry flag as it was.
ResetCarryKeeps(af) == af

ResetCarry(af) == ToUint16(BitAnd(af, 65534))

\* worker.js:47-86: the outcome of one block against the registers.
ProcessBlock(block, regs, m) ==
    LET af_ == regs[SlotAF_]
        expectedBlockType == ExpectedBlockType(af_)
        addr == regs[SlotIX]
        requestedLength == regs[SlotDE]
        actualBlockType == ActualBlockType(block)
    IN  IF BlockTypeMismatch(expectedBlockType, actualBlockType)
        THEN RejectBlock(block, addr, actualBlockType, m)
        ELSE IF ShouldLoad(af_)
             THEN LoadBlock(block, addr, requestedLength, actualBlockType, m)
             ELSE VerifyBlock(block, addr, actualBlockType, m)

\* worker.js:88-94: the carry flag written into AF.
WriteCarry(success, af) == IF success THEN SetCarry(af) ELSE ResetCarry(af)

\* The locals of trapTapeLoad as they stand on return, with the state it was
\* entered in.  called: trapTapeLoad has just returned; ran: it got a block.
NoLocals ==
    [called |-> FALSE, ran |-> FALSE, block |-> <<>>, success |-> FALSE,
     offset |-> 0, loadedBytes |-> 0, addr |-> 0, checksum |-> 0,
     before |-> [registerPairs |-> <<>>, mem |-> EmptyMem, pc |-> 0,
                 tape |-> NoTape]]

Entered(tp, regs, m, pc) ==
    [NoLocals EXCEPT !.called = TRUE,
                     !.before = [registerPairs |-> regs, mem |-> m, pc |-> pc,
                                 tape |-> tp]]

\* Early returns placed after the write of the PC.
TrapNoOpSetsPC(tp, regs, m, pc) ==
    [tape |-> tp, registerPairs |-> regs, mem |-> m, pc |-> 1506,
     calls |-> <<Call("setPC", 1506, 0)>>,
     trap |-> Entered(tp, regs, m, pc)]

\* worker.js:43-45: the early returns; an attached tape was asked for a block.
TrapNoOp(tp, regs, m, pc) ==
    [tape |-> tp, registerPairs |-> regs, mem |-> m, pc |-> pc,
     calls |-> IF tp.attached THEN <<Call("getNextLoadableBlock", 0, 0)>>
               ELSE <<>>,
     trap |-> Entered(tp, regs, m, pc)]

\* The PC written before the carry flag.
TrapOnBlockPCFirst(tp, regs, m, pc) ==
    LET block == NextBlock(tp)
        l == ProcessBlock(block, regs, m)
        af == WriteCarry(l.success, regs[SlotAF])
    IN  [tape |-> AfterNextBlock(tp),
         registerPairs |-> [regs EXCEPT ![SlotAF] = af],
         mem |-> l.mem,
         pc |-> TrapExitPC,
         calls |-> <<Call("getNextLoadableBlock", 1, 0)>> \o l.calls
                   \o <<Call("setPC", TrapExitPC, 0),
                        Call("registerPairs", SlotAF, af)>>,
         trap |-> [Entered(tp, regs, m, pc) EXCEPT
                      !.ran = TRUE, !.block = block,
                      !.success = l.success, !.offset = l.offset,
                      !.loadedBytes = l.loadedBytes, !.addr = l.addr,
                      !.checksum = l.checksum]]

\* A rejected block that stays the next block of the tape.
TrapOnBlockKeepsRejected(tp, regs, m, pc) ==
    LET block == NextBlock(tp)
        l == ProcessBlock(block, regs, m)
        af == WriteCarry(l.success, regs[SlotAF])
    IN  [tape |-> IF l.success THEN AfterNextBlock(tp) ELSE tp,
         registerPairs |-> [regs EXCEPT ![SlotAF] = af],
         mem |-> l.mem,
         pc |-> TrapExitPC,
         calls |-> <<Call("getNextLoadableBlock", 1, 0)>> \o l.calls
                   \o <<Call("registerPairs", SlotAF, af),
                        Call("setPC", TrapExitPC, 0)>>,
         trap |-> [Entered(tp, regs, m, pc) EXCEPT
                      !.ran = TRUE, !.block = block,
                      !.success = l.success, !.offset = l.offset,
                      !.loadedBytes = l.loadedBytes, !.addr = l.addr,
                      !.checksum = l.checksum]]

\* worker.js:47-95: the block is processed, then carry and PC are written.
TrapOnBlock(tp, regs, m, pc) ==
    LET block == NextBlock(tp)
        l == ProcessBlock(block, regs, m)
        af == WriteCarry(l.success, regs[SlotAF])
    IN  [tape |-> AfterNextBlock(tp),
         registerPairs |-> [regs EXCEPT ![SlotAF] = af],
         mem |-> l.mem,
         pc |-> TrapExitPC,
         calls |-> <<Call("getNextLoadableBlock", 1, 0)>> \o l.calls
                   \o <<Call("registerPairs", SlotAF, af),
                        Call("setPC", TrapExitPC, 0)>>,
         trap |-> [Entered(tp, regs, m, pc) EXCEPT
                      !.ran = TRUE, !.block = block,
                      !.success = l.success, !.offset = l.offset,
                      !.loadedBytes = l.loadedBytes, !.addr = l.addr,
                      !.checksum = l.checksum]]

\* The whole of trapTapeLoad: the tape, registers, memory and PC it leaves,
\* what it did to the core in order, and its locals on return.
TrapTapeLoad(tp, regs, m, pc) ==
    IF ~tp.attached \/ ~HasNextBlock(tp)
    THEN TrapNoOp(tp, regs, m, pc)
    ELSE TrapOnBlock(tp, regs, m, pc)

-----------------------------------------------------------------------------
(* The core (jsspeccy-core.wasm), as far as the worker drives it.  The core *)
(* is opaque to the worker: each setter is taken to store its argument, and *)
(* runFrame / resumeFrame to return any status, with the registers the      *)
(* emulated program has set up when they report the tape trap.              *)

InitCore ==
    [pc |-> 0, machineType |-> 48, iff1 |-> 0, iff2 |-> 0, im |-> 0,
     halted |-> FALSE, tstates |-> 0, ports |-> EmptyMem,
     audioSamplesPerFrame |-> 0]

InitRegisterPairs == [i \in 0 .. (NumRegisterPairs - 1) |-> 0]

\* The status of the tape trap, worker.js:123.
StatusTapeTrap == 2

\* Statuses the core returns: the three known ones and one outside the set.
Statuses == {0, 1, 2, 3}

\* Register set-ups of the emulated program at a trap: AF, DE, AF', IX.
\*   type 0 load of 2 bytes to 0x8000; type 0xFF verify; type 0 load of
\*   3 bytes to 0xFFFF.
EngineRegs ==
    { [af |-> 68, de |-> 2, af_ |-> 1,     ix |-> 32768],
      [af |-> 69, de |-> 2, af_ |-> 65280, ix |-> 32768],
      [af |-> 69, de |-> 3, af_ |-> 1,     ix |-> 65535] }

WithRegs(regs, r) ==
    [regs EXCEPT ![SlotAF] = r.af, ![SlotDE] = r.de,
                 ![SlotAF_] = r.af_, ![SlotIX] = r.ix]

\* Where the core's PC stands when runFrame / resumeFrame returns.
EnginePC(st) == IF st = StatusTapeTrap THEN 1366 ELSE 4660

-----------------------------------------------------------------------------
(* Messages *)

Msg(message) ==
    [message |-> message, frameBuffer |-> 0, hasAudio |-> FALSE, audioBytes |-> 0]

RunFrameMsg(id, hasAudio, audioBytes) ==
    [message |-> "runFrame", frameBuffer |-> id, hasAudio |-> hasAudio,
     audioBytes |-> audioBytes]

\* Audio buffers of a runFrame request: none, a pair of 0 bytes, a pair of 8.
AudioChoices ==
    { [hasAudio |-> FALSE, audioBytes |-> 0],
      [hasAudio |-> TRUE,  audioBytes |-> 0],
      [hasAudio |-> TRUE,  audioBytes |-> 8] }

Posted(message, frameBuffer, audio) ==
    [message |-> message, frameBuffer |-> frameBuffer, audio |-> audio]

\* Tape blocks and tapes attached by openTAPFile / openTZXFile.
GoodBlock == <<0, 17, 34, 51>>
BadSumBlock == <<0, 17, 34, 0>>
DataBlock == <<255, 17, 238>>
ShortBlock == <<0, 17>>
SampleTapes ==
    { <<>>, <<GoodBlock>>, <<BadSumBlock, GoodBlock>>, <<DataBlock, ShortBlock>> }

\* A worker that takes the next message while a frame is being run.
AcceptingAnytime == nMsgs < MaxMsgs

\* Run to completion: a message is taken when no handler is running.
Accepting == hpc = "idle" /\ nMsgs < MaxMsgs

Take(m) ==
    /\ cur' = m
    /\ nMsgs' = nMsgs + 1

-----------------------------------------------------------------------------
(* case 'runFrame', worker.js:100-155 *)

\* A runFrame handler without the check of stopped.
NeverDropped(isStopped) == FALSE

Dropped(isStopped) == isStopped

AudioLength(m) == IF m.hasAudio THEN m.audioBytes \div 4 ELSE 0

\* core.runFrame() / core.resumeFrame() returns st, having left the registers
\* r of the emulated program when st is the tape trap; n trap statuses were
\* reported in this frame before.
EngineReturns(st, r, n) ==
    /\ st = StatusTapeTrap => n < MaxTrapsPerFrame
    /\ status' = st
    /\ registerPairs' = IF st = StatusTapeTrap THEN WithRegs(registerPairs, r)
                        ELSE registerPairs
    /\ nTraps' = IF st = StatusTapeTrap THEN n + 1 ELSE n

\* worker.js:101-117: up to the return of core.runFrame().
RunFrame(audio, st, r) ==
    /\ Accepting
    /\ Take(RunFrameMsg(nMsgs + 1, audio.hasAudio, audio.audioBytes))
    /\ trap' = NoLocals
    /\ IF Dropped(stopped)
       THEN /\ calls' = <<>>
            /\ UNCHANGED <<stopped, tape, registerPairs, mem, core, memoryData,
                           hpc, status, outbox, nTraps, trdosDisk, accepted>>
       ELSE /\ EngineReturns(st, r, 0)
            /\ calls' = <<Call("setAudioSamplesPerFrame", AudioLength(cur'), 0),
                          Call("runFrame", 0, 0)>>
            /\ core' = [core EXCEPT !.audioSamplesPerFrame = AudioLength(cur'),
                                    !.pc = EnginePC(st)]
            /\ hpc' = "dispatch"
            /\ accepted' = Append(accepted, cur'.frameBuffer)
            /\ UNCHANGED <<stopped, tape, mem, memoryData, outbox, trdosDisk>>

\* A loop that is also left at the tape trap status.
LoopExitAtTrap(st) == st = 0 \/ st = 2

\* while (status): the loop is left when the status is 0.
LoopExit(st) == st = 0

\* switch (status): case 2.
IsTapeTrap(st) == st = StatusTapeTrap

\* A switch that also stops the worker at the tape trap status.
IsFatalOrTrap(st) == ~LoopExit(st)

\* switch (status): case 1 and default.
IsFatal(st) == ~LoopExit(st) /\ ~IsTapeTrap(st)

\* worker.js:120-122, 126-128: stopped is set and the handler throws.
Fatal ==
    /\ hpc = "dispatch"
    /\ IsFatal(status)
    /\ stopped' = TRUE
    /\ calls' = Append(calls, Call("throw", status, 0))
    /\ hpc' = "idle"
    /\ UNCHANGED <<tape, registerPairs, mem, core, memoryData, status, cur,
                   trap, outbox, nMsgs, nTraps, trdosDisk, accepted>>

\* worker.js:123-125: trapTapeLoad().
TrapStep ==
    /\ hpc = "dispatch"
    /\ IsTapeTrap(status)
    /\ LET t == TrapTapeLoad(tape, registerPairs, mem, core.pc)
       IN  /\ tape' = t.tape
           /\ registerPairs' = t.registerPairs
           /\ mem' = t.mem
           /\ core' = [core EXCEPT !.pc = t.pc]
           /\ calls' = Append(calls, Call("trapTapeLoad", 0, 0)) \o t.calls
           /\ trap' = t.trap
    /\ hpc' = "resume"
    /\ UNCHANGED <<stopped, memoryData, status, cur, outbox, nMsgs, nTraps,
                   trdosDisk, accepted>>

\* worker.js:131: status = core.resumeFrame().
ResumeFrame(st, r) ==
    /\ hpc = "resume"
    /\ EngineReturns(st, r, nTraps)
    /\ calls' = Append(calls, Call("resumeFrame", 0, 0))
    /\ core' = [core EXCEPT !.pc = EnginePC(st)]
    /\ trap' = NoLocals
    /\ hpc' = "dispatch"
    /\ UNCHANGED <<stopped, tape, mem, memoryData, cur, outbox, nMsgs,
                   trdosDisk, accepted>>

\* worker.js:135: the audio buffers are filled and sent back.
SendsAudio(audioLength) == audioLength # 0

\* worker.js:134-153: the frame is copied out and frameCompleted is posted.
FrameCompleted ==
    /\ hpc = "dispatch"
    /\ LoopExit(status)
    /\ LET audio == SendsAudio(AudioLength(cur))
       IN  /\ calls' = calls \o <<Call("frameData.set", cur.frameBuffer, 0)>>
                       \o (IF audio
                           THEN <<Call("leftData.set", AudioLength(cur), 0),
                                  Call("rightData.set", AudioLength(cur), 0)>>
                           ELSE <<>>)
                       \o <<Call("postMessage", cur.frameBuffer, 0)>>
           /\ outbox' = Append(outbox,
                               Posted("frameCompleted", cur.frameBuffer, audio))
    /\ hpc' = "idle"
    /\ UNCHANGED <<stopped, tape, registerPairs, mem, core, memoryData, status,
                   cur, trap, nMsgs, nTraps, trdosDisk, accepted>>

-----------------------------------------------------------------------------
(* loadMemoryPage and loadSnapshot, worker.js:14-40 *)

PageSize == 16384      \* 0x4000

\* memoryData.set(data, core.MACHINE_MEMORY + page * 0x4000); offsets are
\* kept relative to core.MACHINE_MEMORY.
LoadMemoryPage(md, page, data) ==
    LET base == page * PageSize
        written == {base + (i - 1) : i \in 1 .. Len(data)}
    IN  [x \in (DOMAIN md) \cup written |->
            IF x \in written THEN data[x - base + 1] ELSE md[x]]

\* for (let page in snapshot.memoryPages): integer keys in ascending order.
RECURSIVE LoadPages(_, _, _)
LoadPages(md, memoryPages, todo) ==
    IF todo = {} THEN md
    ELSE LET page == CHOOSE q \in todo : \A o \in todo : q <= o
         IN  LoadPages(LoadMemoryPage(md, page, memoryPages[page]),
                       memoryPages, todo \ {page})

RECURSIVE PageCalls(_, _)
PageCalls(memoryPages, todo) ==
    IF todo = {} THEN <<>>
    ELSE LET page == CHOOSE q \in todo : \A o \in todo : q <= o
         IN  <<Call("loadMemoryPage", page, Len(memoryPages[page]))>>
             \o PageCalls(memoryPages, todo \ {page})

\* The first two register names exchanged.
RegisterNamesSwapped ==
    <<"BC", "AF", "DE", "HL", "AF_", "BC_", "DE_", "HL_", "IX", "IY", "SP", "IR">>

\* worker.js:23: the register pairs in the order of their slots.
RegisterNames ==
    <<"AF", "BC", "DE", "HL", "AF_", "BC_", "DE_", "HL_", "IX", "IY", "SP", "IR">>

\* !!snapshot.halted
Truthy(v) == v # 0 /\ v # Undefined

PortBorder == 254      \* 0x00fe
PortPaging == 32765    \* 0x7ffd

\* The paging port written for every model.
WritesPagingPortAlways(model) == TRUE

WritesPagingPort(model) == model # 48

\* The whole of loadSnapshot: the registers, core state and machine memory it
\* leaves and what it did, in program order.
LoadSnapshot(snapshot, c, md) ==
    LET pages == DOMAIN snapshot.memoryPages
        regs == [i \in 0 .. (NumRegisterPairs - 1) |->
                    ToUint16(snapshot.registers[RegisterNames[i + 1]])]
        paging == WritesPagingPort(snapshot.model)
        ports1 == Poke(c.ports, PortBorder, snapshot.ulaState.borderColour)
        ports2 == IF paging
                  THEN Poke(ports1, PortPaging, snapshot.ulaState.pagingFlags)
                  ELSE ports1
    IN  [registerPairs |-> regs,
         memoryData |-> LoadPages(md, snapshot.memoryPages, pages),
         core |-> [c EXCEPT !.machineType = snapshot.model,
                            !.pc = snapshot.registers.PC,
                            !.iff1 = snapshot.registers.iff1,
                            !.iff2 = snapshot.registers.iff2,
                            !.im = snapshot.registers.im,
                            !.halted = Truthy(snapshot.halted),
                            !.ports = ports2,
                            !.tstates = snapshot.tstates],
         calls |-> <<Call("setMachineType", snapshot.model, 0)>>
                   \o PageCalls(snapshot.memoryPages, pages)
                   \o [i \in 1 .. NumRegisterPairs |->
                          Call("registerPairs", i - 1, regs[i - 1])]
                   \o <<Call("setPC", snapshot.registers.PC, 0),
                        Call("setIFF1", snapshot.registers.iff1, 0),
                        Call("setIFF2", snapshot.registers.iff2, 0),
                        Call("setIM", snapshot.registers.im, 0),
                        Call("setHalted",
                             IF Truthy(snapshot.halted) THEN 1 ELSE 0, 0),
                        Call("writePort", PortBorder,
                             snapshot.ulaState.borderColour)>>
                   \o (IF paging
                       THEN <<Call("writePort", PortPaging,
                                   snapshot.ulaState.pagingFlags)>>
                       ELSE <<>>)
                   \o <<Call("setTStates", snapshot.tstates, 0)>>]

\* Snapshots sent with loadSnapshot: a 48K one and a 128K one.
Snapshot48 ==
    [model |-> 48,
     memoryPages |-> (5 :> <<1, 2>>) @@ (2 :> <<3>>) @@ (0 :> <<4, 5>>),
     registers |-> [AF |-> 4660, BC |-> 1, DE |-> 2, HL |-> 3, AF_ |-> 257,
                    BC_ |-> 5, DE_ |-> 6, HL_ |-> 7, IX |-> 32768, IY |-> 23610,
                    SP |-> 65535, IR |-> 16128, PC |-> 4608, iff1 |-> 1,
                    iff2 |-> 1, im |-> 1],
     halted |-> Undefined,
     ulaState |-> [borderColour |-> 7, pagingFlags |-> 0],
     tstates |-> 100]

Snapshot128 ==
    [model |-> 128,
     memoryPages |-> (7 :> <<9>>) @@ (0 :> <<8, 7>>),
     registers |-> [AF |-> 65535, BC |-> 11, DE |-> 12, HL |-> 13, AF_ |-> 0,
                    BC_ |-> 15, DE_ |-> 16, HL_ |-> 17, IX |-> 65534, IY |-> 19,
                    SP |-> 20, IR |-> 21, PC |-> 49152, iff1 |-> 0,
                    iff2 |-> 1, im |-> 2],
     halted |-> 1,
     ulaState |-> [borderColour |-> 2, pagingFlags |-> 16],
     tstates |-> 69887]

Snapshots == {Snapshot48, Snapshot128}

-----------------------------------------------------------------------------
(* The other message handlers, worker.js:156-187 *)

\* Handlers that put a stopped worker back to work.
FrameStateRestarted ==
    /\ stopped' = FALSE
    /\ UNCHANGED <<hpc, status, trap, outbox, nTraps, accepted>>

\* Every handler but runFrame leaves these alone.
FrameStateUnchanged ==
    UNCHANGED <<stopped, hpc, status, trap, outbox, nTraps, accepted>>

KeyDown(row, mask) ==
    /\ Accepting
    /\ Take(Msg("keyDown"))
    /\ calls' = <<Call("keyDown", row, mask)>>
    /\ FrameStateUnchanged
    /\ UNCHANGED <<tape, registerPairs, mem, core, memoryData, trdosDisk>>

KeyUp(row, mask) ==
    /\ Accepting
    /\ Take(Msg("keyUp"))
    /\ calls' = <<Call("keyUp", row, mask)>>
    /\ FrameStateUnchanged
    /\ UNCHANGED <<tape, registerPairs, mem, core, memoryData, trdosDisk>>

SetMachineType(type) ==
    /\ Accepting
    /\ Take(Msg("setMachineType"))
    /\ calls' = <<Call("setMachineType", type, 0)>>
    /\ core' = [core EXCEPT !.machineType = type]
    /\ FrameStateUnchanged
    /\ UNCHANGED <<tape, registerPairs, mem, memoryData, trdosDisk>>

Reset ==
    /\ Accepting
    /\ Take(Msg("reset"))
    /\ calls' = <<Call("reset", 0, 0)>>
    /\ core' = [core EXCEPT !.pc = 0, !.iff1 = 0, !.iff2 = 0, !.im = 0,
                            !.halted = FALSE]
    /\ FrameStateUnchanged
    /\ UNCHANGED <<tape, registerPairs, mem, memoryData, trdosDisk>>

LoadMemory(page, data) ==
    /\ Accepting
    /\ Take(Msg("loadMemory"))
    /\ calls' = <<Call("loadMemoryPage", page, Len(data))>>
    /\ memoryData' = LoadMemoryPage(memoryData, page, data)
    /\ FrameStateUnchanged
    /\ UNCHANGED <<tape, registerPairs, mem, core, trdosDisk>>

LoadSnapshotMsg(snapshot) ==
    /\ Accepting
    /\ Take(Msg("loadSnapshot"))
    /\ LET l == LoadSnapshot(snapshot, core, memoryData)
       IN  /\ registerPairs' = l.registerPairs
           /\ core' = l.core
           /\ memoryData' = l.memoryData
           /\ calls' = l.calls
    /\ FrameStateUnchanged
    /\ UNCHANGED <<tape, mem, trdosDisk>>

OpenTAPFile(blocks) ==
    /\ Accepting
    /\ Take(Msg("openTAPFile"))
    /\ tape' = NewTape(blocks)
    /\ calls' = <<Call("new TAPFile", Len(blocks), 0)>>
    /\ FrameStateUnchanged
    /\ UNCHANGED <<registerPairs, mem, core, memoryData, trdosDisk>>

OpenTZXFile(blocks) ==
    /\ Accepting
    /\ Take(Msg("openTZXFile"))
    /\ tape' = NewTape(blocks)
    /\ calls' = <<Call("new TZXFile", Len(blocks), 0)>>
    /\ FrameStateUnchanged
    /\ UNCHANGED <<registerPairs, mem, core, memoryData, trdosDisk>>

\* const trdosDisk = new Uint8Array(0xa0000), worker.js:9.
TrdosDiskSize == 655360

\* The disk buffer is kept as runs of equal bytes: <<end, byte>> says that
\* the bytes from the end of the run before up to end (excluded) are byte.
InitTrdosDisk == <<[end |-> TrdosDiskSize, byte |-> 0]>>

\* Math.min(0xa0000, e.data.data.byteLength)
TrdBufferLength(byteLength) ==
    IF byteLength < TrdosDiskSize THEN byteLength ELSE TrdosDiskSize

\* trdosDisk.set(sourceBuffer): the first n bytes become byte.
SetDiskPrefix(disk, n, byte) ==
    LET IsLater(run) == run.end > n
    IN  (IF n > 0 THEN <<[end |-> n, byte |-> byte]>> ELSE <<>>)
        \o SelectSeq(disk, IsLater)

\* Disk images sent with openTRDFile: byteLength bytes, all equal to byte.
DiskImages == { [byteLength |-> 4, byte |-> 229],
                [byteLength |-> 655361, byte |-> 1] }

OpenTRDFile(data) ==
    /\ Accepting
    /\ Take(Msg("openTRDFile"))
    /\ calls' = <<Call("trdosDisk.set", TrdBufferLength(data.byteLength), 0)>>
    /\ trdosDisk' = SetDiskPrefix(trdosDisk, TrdBufferLength(data.byteLength),
                                  data.byte)
    /\ FrameStateUnchanged
    /\ UNCHANGED <<tape, registerPairs, mem, core, memoryData>>

\* default: the message is logged.
OtherMessage ==
    /\ Accepting
    /\ Take(Msg("other"))
    /\ calls' = <<Call("console.log", 0, 0)>>
    /\ FrameStateUnchanged
    /\ UNCHANGED <<tape, registerPairs, mem, core, memoryData, trdosDisk>>

-----------------------------------------------------------------------------
(* The worker from run(core) on *)

Init ==
    /\ stopped = FALSE
    /\ tape = NoTape
    /\ registerPairs = InitRegisterPairs
    /\ mem = EmptyMem
    /\ core = InitCore
    /\ memoryData = EmptyMem
    /\ hpc = "idle"
    /\ status = 0
    /\ cur = Msg("none")
    /\ calls = <<>>
    /\ trap = NoLocals
    /\ outbox = <<Posted("ready", 0, FALSE)>>
    /\ nMsgs = 0
    /\ nTraps = 0
    /\ trdosDisk = InitTrdosDisk
    /\ accepted = <<>>

Next ==
    \/ \E audio \in AudioChoices, st \in Statuses, r \in EngineRegs :
           RunFrame(audio, st, r)
    \/ TrapStep
    \/ \E st \in Statuses, r \in EngineRegs : ResumeFrame(st, r)
    \/ Fatal
    \/ FrameCompleted
    \/ KeyDown(0, 1)
    \/ KeyUp(0, 1)
    \/ \E type \in {48, 128} : SetMachineType(type)
    \/ Reset
    \/ \E page \in {5} : LoadMemory(page, <<170, 85>>)
    \/ \E snapshot \in Snapshots : LoadSnapshotMsg(snapshot)
    \/ \E blocks \in SampleTapes : OpenTAPFile(blocks)
    \/ \E blocks \in SampleTapes : OpenTZXFile(blocks)
    \/ \E data \in DiskImages : OpenTRDFile(data)
    \/ OtherMessage

Spec == Init /\ [][Next]_vars

-----------------------------------------------------------------------------
(* trapTapeLoad on its own: the handler stands at the trap status of a      *)
(* frame, with the tape and the registers drawn from wider sets.            *)

TrapBytes == {0, 17, 34, 51}

TrapBlocks == UNION {[1 .. n -> TrapBytes] : n \in 0 .. MaxBlockLen}

TrapTapes ==
    {NoTape, NewTape(<<>>)} \cup {NewTape(<<block>>) : block \in TrapBlocks}

\* AF: carry clear or set.  AF': expected type 0x00 or 0x11 with the low
\* byte 0x00, 0x01 or 0xFE.  DE: 0 .. MaxReq and 0xFFFF.  IX: mid-memory and
\* the top address.
TrapRegs ==
    { [af |-> af, de |-> de, af_ |-> (hi * 256) + lo, ix |-> ix] :
        af \in {68, 69}, de \in (0 .. MaxReq) \cup {65535},
        hi \in {0, 17}, lo \in {0, 1, 254},
        ix \in {32768, 65535} }

TrapInit ==
    /\ stopped = FALSE
    /\ tape \in TrapTapes
    /\ \E r \in TrapRegs : registerPairs = WithRegs(InitRegisterPairs, r)
    /\ mem = EmptyMem
    /\ core = [InitCore EXCEPT !.pc = EnginePC(StatusTapeTrap)]
    /\ memoryData = EmptyMem
    /\ hpc = "dispatch"
    /\ status = StatusTapeTrap
    /\ cur = RunFrameMsg(1, FALSE, 0)
    /\ calls = <<Call("setAudioSamplesPerFrame", 0, 0), Call("runFrame", 0, 0)>>
    /\ trap = NoLocals
    /\ outbox = <<Posted("ready", 0, FALSE)>>
    /\ nMsgs = 1
    /\ nTraps = 1
    /\ trdosDisk = InitTrdosDisk
    /\ accepted = <<1>>

TrapNext == TrapStep

TrapSpec == TrapInit /\ [][TrapNext]_vars

-----------------------------------------------------------------------------
(* What the claims about trapTapeLoad speak of *)

\* trapTapeLoad has just returned, and the handler stands before resumeFrame.
TrapReturned == hpc = "resume" /\ trap.called

\* ... having obtained a block from the tape.
GotBlock == TrapReturned /\ trap.ran

Block0 == trap.block
ExpectedType0 == trap.before.registerPairs[4] \div 256
LoadMode0 == trap.before.registerPairs[4] % 2 = 1
Requested0 == trap.before.registerPairs[2]
Start0 == trap.before.registerPairs[8]
CarryNow == registerPairs[0] % 2

TypeMatches0 == Len(Block0) > 0 /\ Block0[1] = ExpectedType0

\* Exclusive or of two bytes, bit by bit.
Xor8(a, b) ==
    LET bit(x, i) == (x \div (2 ^ i)) % 2
        f[i \in 0 .. 8] ==
            IF i = 8 THEN 0
            ELSE (((bit(a, i) + bit(b, i)) % 2) * (2 ^ i)) + f[i + 1]
    IN  f[0]

\* Exclusive or of the first n bytes of a block.
RECURSIVE XorOfFirst(_, _)
XorOfFirst(block, n) ==
    IF n = 0 THEN 0 ELSE Xor8(XorOfFirst(block, n - 1), block[n])

\* What the trapTapeLoad invocation that has just returned did, in order.
LastTrapCalls ==
    LET at == {i \in 1 .. Len(calls) : calls[i].op = "trapTapeLoad"}
        last == CHOOSE i \in at : \A j \in at : j <= i
    IN  IF at = {} THEN <<>> ELSE SubSeq(calls, last + 1, Len(calls))

IsPoke(c) == c.op = "poke"
Pokes0 == SelectSeq(LastTrapCalls, IsPoke)

\* Payload bytes of a block: those between the type byte and the last byte.
PayloadLen(block) == IF Len(block) >= 2 THEN Len(block) - 2 ELSE 0

\* The i-th copied byte (i from 0) is in memory at (start + i) mod 65536.
CopiedInMemory(n) ==
    \A i \in 0 .. (n - 1) : Peek(mem, (Start0 + i) % 65536) = Block0[i + 2]

-----------------------------------------------------------------------------
(* Claims about trapTapeLoad, checked under TrapSpec *)

\* C3: in load mode, with a matching block type, a requested count no larger
\* than the block's payload and a matching checksum byte after the copied
\* bytes, the trap sets carry, leaves the copied payload bytes in memory at
\* the destination, and has advanced the destination address by the
\* requested count modulo 65536.
C3_LoadSucceeds ==
    (/\ GotBlock
     /\ LoadMode0
     /\ TypeMatches0
     /\ Requested0 <= PayloadLen(Block0)
     /\ Len(Block0) >= 2
     /\ Block0[Requested0 + 2] = XorOfFirst(Block0, Requested0 + 1))
    => /\ CarryNow = 1
       /\ CopiedInMemory(Requested0)
       /\ Len(Pokes0) = Requested0
       /\ trap.addr = (Start0 + Requested0) % 65536

\* The scenario of the specification: block 00 11 22 33, two bytes to 0x8000.
C3_Witness ==
    /\ GotBlock
    /\ LoadMode0
    /\ Block0 = <<0, 17, 34, 51>>
    /\ Requested0 = 2
    /\ Start0 = 32768
    /\ trap.before.registerPairs[0] % 2 = 0
    /\ CarryNow = 1
    /\ Peek(mem, 32768) = 17
    /\ Peek(mem, 32769) = 34
    /\ trap.addr = 32770
    /\ core.pc = 1506

\* C4: when the block's first byte differs from the expected block type,
\* carry is cleared and no byte of memory is written, in load and in verify
\* mode alike.
C4_MismatchWritesNothing ==
    (GotBlock /\ ~TypeMatches0)
    => /\ CarryNow = 0
       /\ Pokes0 = <<>>
       /\ mem = trap.before.mem

C4_Witness ==
    /\ GotBlock
    /\ LoadMode0
    /\ Len(Block0) >= 3
    /\ Block0[1] = 17
    /\ ExpectedType0 = 0
    /\ Requested0 >= 1
    /\ trap.before.registerPairs[0] % 2 = 1
    /\ CarryNow = 0
    /\ mem = EmptyMem

\* C5: in load mode with a matching block type, a requested count larger
\* than the block's payload ends with carry cleared and PC = 0x05E2.
C5_TooFewBytes ==
    (/\ GotBlock
     /\ LoadMode0
     /\ TypeMatches0
     /\ Requested0 > PayloadLen(Block0))
    => /\ CarryNow = 0
       /\ core.pc = 1506

\* The scenario of the specification: block 00 11 22 33, three bytes asked.
C5_Witness ==
    /\ GotBlock
    /\ LoadMode0
    /\ Block0 = <<0, 17, 34, 51>>
    /\ Requested0 = 3
    /\ trap.before.registerPairs[0] % 2 = 1
    /\ CarryNow = 0
    /\ core.pc = 1506

\* C6: in load mode with a matching block type and a requested count the
\* block can satisfy, a missing or mismatching checksum byte after the
\* copied bytes clears carry, and every copied byte stays in memory.
C6_ChecksumFailureKeepsBytes ==
    (/\ GotBlock
     /\ LoadMode0
     /\ TypeMatches0
     /\ Requested0 <= Len(Block0) - 1
     /\ \/ Requested0 + 2 > Len(Block0)
        \/ Block0[Requested0 + 2] # XorOfFirst(Block0, Requested0 + 1))
    => /\ CarryNow = 0
       /\ Len(Pokes0) = Requested0
       /\ CopiedInMemory(Requested0)

C6_Witness ==
    /\ GotBlock
    /\ LoadMode0
    /\ Block0 = <<0, 17, 34, 17>>
    /\ Requested0 = 2
    /\ Start0 = 32768
    /\ trap.before.registerPairs[0] % 2 = 1
    /\ CarryNow = 0
    /\ Peek(mem, 32768) = 17
    /\ Peek(mem, 32769) = 34

\* C7 as stated: every verify-mode request that gets a block ends with carry
\* set, whatever the block holds, and writes no memory.
C7_VerifyAlwaysSucceeds ==
    (GotBlock /\ ~LoadMode0)
    => /\ CarryNow = 1
       /\ Pokes0 = <<>>
       /\ mem = trap.before.mem

\* C7, amended: a verify-mode request whose expected block type equals the
\* block's first byte ends with carry set, whatever the rest of the block
\* holds, and writes no memory.
C7_VerifyOfMatchingTypeSucceeds ==
    (GotBlock /\ ~LoadMode0 /\ TypeMatches0)
    => /\ CarryNow = 1
       /\ Pokes0 = <<>>
       /\ mem = trap.before.mem

C7_Witness ==
    /\ GotBlock
    /\ ~LoadMode0
    /\ TypeMatches0
    /\ Block0 = <<17, 34, 0>>
    /\ Requested0 = 2
    /\ trap.before.registerPairs[0] % 2 = 0
    /\ CarryNow = 1
    /\ mem = EmptyMem

\* C8: the i-th copied byte (i from 0) is written to (start + i) mod 65536,
\* an address within 0 .. 0xFFFF: from 0xFFFF the second byte goes to 0x0000.
C8_AddressWraps ==
    GotBlock
    => \A i \in 1 .. Len(Pokes0) :
          /\ Pokes0[i].a = (Start0 + (i - 1)) % 65536
          /\ Pokes0[i].a \in 0 .. 65535
          /\ Pokes0[i].b = Block0[i + 1]

C8_Witness ==
    /\ GotBlock
    /\ Start0 = 65535
    /\ Requested0 = 2
    /\ Len(Pokes0) = 2
    /\ Pokes0[1].a = 65535
    /\ Pokes0[2].a = 0
    /\ Peek(mem, 65535) = Block0[2]
    /\ Peek(mem, 0) = Block0[3]

-----------------------------------------------------------------------------
(* Claims about the frame loop, checked under Spec *)

IsEngineRun(c) == c.op \in {"runFrame", "resumeFrame"}
EngineRuns(log) == Len(SelectSeq(log, IsEngineRun))

IsPrefix(a, b) == Len(a) <= Len(b) /\ SubSeq(b, 1, Len(a)) = a

\* The step invokes neither core.runFrame nor core.resumeFrame: the log of
\* the handler is continued, or started anew, without one.
NoEngineRunInStep ==
    IF IsPrefix(calls, calls') THEN EngineRuns(calls') = EngineRuns(calls)
    ELSE EngineRuns(calls') = 0

\* The core has returned a fatal status to the frame loop.
FatalStatusReturned == hpc = "dispatch" /\ status \notin {0, 2}

\* C1: once the core has returned a fatal status from runFrame or from
\* resumeFrame, whatever messages follow, no frameCompleted is posted and
\* neither core.runFrame nor core.resumeFrame is invoked again: the worker
\* stays stopped and every later runFrame request is dropped.
C1_FatalIsFinal ==
    [][(stopped \/ FatalStatusReturned)
       => /\ stopped'
          /\ hpc' = "idle"
          /\ outbox' = outbox
          /\ NoEngineRunInStep]_vars

\* A runFrame request dropped after a fatal status, a tape attached since.
C1_Witness ==
    /\ stopped
    /\ hpc = "idle"
    /\ cur.message = "runFrame"
    /\ calls = <<>>
    /\ tape.attached
    /\ nMsgs = 3
    /\ Len(outbox) = 1

IsLoopCall(c) ==
    c.op \in {"runFrame", "trapTapeLoad", "resumeFrame", "postMessage", "throw"}
LoopCalls == SelectSeq(calls, IsLoopCall)
CountOp(log, op) == Cardinality({i \in 1 .. Len(log) : log[i].op = op})

FrameHandled == cur.message = "runFrame" /\ calls # <<>>

\* The frame of the request at hand has been completed.
FrameDone ==
    /\ FrameHandled
    /\ hpc = "idle"
    /\ calls[Len(calls)].op = "postMessage"

\* C2: in the handling of an accepted runFrame request, core.runFrame is the
\* first call of the loop and is made once; each trap status is followed by
\* one trapTapeLoad and then one core.resumeFrame; and when the core has
\* reported the trap k times and then Completed, there were k trapTapeLoad
\* and k resumeFrame calls and exactly one frameCompleted, posted last, after
\* the Completed status.
C2_FrameLoop ==
    FrameHandled
    => LET e == LoopCalls
       IN  /\ e[1].op = "runFrame"
           /\ CountOp(e, "runFrame") = 1
           /\ \A i \in 2 .. Len(e) :
                 /\ e[i].op = "trapTapeLoad"
                       => e[i - 1].op \in {"runFrame", "resumeFrame"}
                 /\ e[i].op = "resumeFrame" => e[i - 1].op = "trapTapeLoad"
                 /\ e[i].op \in {"postMessage", "throw"}
                       => /\ i = Len(e)
                          /\ e[i - 1].op \in {"runFrame", "resumeFrame"}
           /\ hpc = "dispatch"
                 => /\ CountOp(e, "resumeFrame") = CountOp(e, "trapTapeLoad")
                    /\ nTraps = CountOp(e, "trapTapeLoad")
                                + (IF status = 2 THEN 1 ELSE 0)
           /\ hpc = "resume"
                 => /\ CountOp(e, "trapTapeLoad") = nTraps
                    /\ CountOp(e, "resumeFrame") = nTraps - 1
           /\ FrameDone
                 => /\ status = 0
                    /\ CountOp(e, "trapTapeLoad") = nTraps
                    /\ CountOp(e, "resumeFrame") = nTraps
                    /\ CountOp(e, "postMessage") = 1
                    /\ Cardinality({i \in 1 .. Len(outbox) :
                           /\ outbox[i].message = "frameCompleted"
                           /\ outbox[i].frameBuffer = cur.frameBuffer}) = 1
                    /\ outbox[Len(outbox)].frameBuffer = cur.frameBuffer
           /\ (hpc # "idle" \/ e[Len(e)].op = "throw")
                 => \A i \in 1 .. Len(outbox) :
                       outbox[i].frameBuffer # cur.frameBuffer

\* A frame completed after two trap hits.
C2_Witness ==
    /\ FrameDone
    /\ nTraps = 2
    /\ status = 0
    /\ CountOp(calls, "resumeFrame") = 2
    /\ CountOp(calls, "trapTapeLoad") = 2
    /\ outbox[Len(outbox)] = Posted("frameCompleted", cur.frameBuffer, FALSE)

\* C9: every trapTapeLoad that obtains a block leaves PC = 0x05E2 for the next
\* resume, whatever the outcome, and writes the PC last, right after the
\* write of the carry flag into AF.
C9_ExitPC ==
    /\ GotBlock
         => /\ core.pc = 1506
            /\ LET t == LastTrapCalls
               IN  /\ Len(t) >= 3
                   /\ t[Len(t)] = Call("setPC", 1506, 0)
                   /\ t[Len(t) - 1] = Call("registerPairs", 0, registerPairs[0])
                   /\ CountOp(t, "setPC") = 1
    /\ \A i \in 1 .. Len(calls) :
          (calls[i].op = "resumeFrame" /\ calls[i - 1].op # "getNextLoadableBlock"
             /\ calls[i - 1].op # "trapTapeLoad")
          => /\ calls[i - 1] = Call("setPC", 1506, 0)
             /\ calls[i - 2].op = "registerPairs"
             /\ calls[i - 2].a = 0

\* A block that fails for its checksum byte: carry cleared, PC at the exit
\* address.
C9_Witness ==
    /\ GotBlock
    /\ Block0 = <<0, 17, 34, 0>>
    /\ LoadMode0
    /\ Requested0 = 3
    /\ trap.before.registerPairs[0] % 2 = 1
    /\ CarryNow = 0
    /\ trap.before.pc = 1366
    /\ core.pc = 1506

\* C10: a trap with no tape attached, or with a tape that has no block left,
\* changes nothing: PC, every register pair (carry included) and memory are
\* as they were, and the tape is where it was.
C10_NoTapeNoAction ==
    (/\ TrapReturned
     /\ \/ ~trap.before.tape.attached
        \/ trap.before.tape.next >= Len(trap.before.tape.blocks))
    => /\ ~trap.ran
       /\ core.pc = trap.before.pc
       /\ registerPairs = trap.before.registerPairs
       /\ mem = trap.before.mem
       /\ tape = trap.before.tape
       /\ \A i \in 1 .. Len(LastTrapCalls) :
             LastTrapCalls[i].op \notin {"poke", "setPC", "registerPairs"}

\* A trap on a tape whose only block was consumed by an earlier trap.
C10_Witness ==
    /\ TrapReturned
    /\ ~trap.ran
    /\ tape.attached
    /\ tape.next = 1
    /\ Len(tape.blocks) = 1
    /\ core.pc = 1366
    /\ registerPairs[4] = 1

\* C16: a load request for zero bytes of a block of the expected type makes
\* no write to the memory of the core, and it ends with carry set exactly
\* when the block has a byte at offset 1 that equals the block type byte,
\* the checksum of an empty payload.
C16_ZeroLengthLoad ==
    (GotBlock /\ LoadMode0 /\ TypeMatches0 /\ Requested0 = 0)
    => /\ Pokes0 = <<>>
       /\ mem = trap.before.mem
       /\ trap.loadedBytes = 0
       /\ trap.offset = 1
       /\ trap.checksum = Block0[1]
       /\ CarryNow = 1 <=> (Len(Block0) >= 2 /\ Block0[2] = Block0[1])

\* Zero bytes asked of a block whose second byte repeats the type byte 17:
\* carry is set, and the bytes that follow are not copied.
C16_Witness ==
    /\ GotBlock
    /\ LoadMode0
    /\ Requested0 = 0
    /\ ExpectedType0 = 17
    /\ Len(Block0) = 3
    /\ Block0[1] = 17
    /\ Block0[2] = 17
    /\ trap.before.registerPairs[0] % 2 = 0
    /\ CarryNow = 1
    /\ mem = trap.before.mem

-----------------------------------------------------------------------------
(* The frame loop with a core that reports the tape trap, at one and the    *)
(* same PC, from runFrame and from every resumeFrame, while the worker has  *)
(* no block to give: no tape, an empty tape, or a tape read to its end.     *)

ExhaustedTape(blocks) == [NewTape(blocks) EXCEPT !.next = Len(blocks)]

NoBlockTapes == {NoTape} \cup {ExhaustedTape(blocks) : blocks \in SampleTapes}

LoopInit ==
    /\ stopped = FALSE
    /\ tape \in NoBlockTapes
    /\ \E r \in TrapRegs : registerPairs = WithRegs(InitRegisterPairs, r)
    /\ mem = EmptyMem
    /\ core = [InitCore EXCEPT !.pc = EnginePC(StatusTapeTrap)]
    /\ memoryData = EmptyMem
    /\ hpc = "dispatch"
    /\ status = StatusTapeTrap
    /\ cur = RunFrameMsg(1, FALSE, 0)
    /\ calls = <<Call("setAudioSamplesPerFrame", 0, 0), Call("runFrame", 0, 0)>>
    /\ trap = NoLocals
    /\ outbox = <<Posted("ready", 0, FALSE)>>
    /\ nMsgs = 1
    /\ nTraps = 1
    /\ trdosDisk = InitTrdosDisk
    /\ accepted = <<1>>

LoopNext ==
    \/ TrapStep
    \/ \E r \in EngineRegs : ResumeFrame(StatusTapeTrap, r)

LoopSpec == LoopInit /\ [][LoopNext]_vars

\* C17: with no block to give and a core that reports the tape trap again at
\* the same PC after every resume, the handler of the runFrame request stays
\* in its loop: the status is never 0, neither the exit of the loop nor the
\* fatal branch is open, no frameCompleted is posted, the worker is not
\* stopped, no further message is taken, and every pass calls trapTapeLoad
\* once more, which again changes nothing.
C17_TrapLoopsForever ==
    /\ hpc \in {"dispatch", "resume"}
    /\ status = StatusTapeTrap
    /\ ~LoopExit(status) /\ ~IsFatal(status) /\ IsTapeTrap(status)
    /\ ~stopped
    /\ outbox = <<Posted("ready", 0, FALSE)>>
    /\ nMsgs = 1 /\ cur = RunFrameMsg(1, FALSE, 0)
    /\ ~Accepting
    /\ core.pc = EnginePC(StatusTapeTrap)
    /\ ~tape.attached \/ ~HasNextBlock(tape)
    /\ mem = EmptyMem
    /\ hpc = "dispatch" => ENABLED TrapStep
    /\ hpc = "resume" => (trap.called /\ ~trap.ran /\ tape = trap.before.tape)
    /\ CountOp(calls, "trapTapeLoad") =
           (IF hpc = "dispatch" THEN nTraps - 1 ELSE nTraps)
    /\ CountOp(calls, "resumeFrame") = nTraps - 1

\* The trap has been entered for the second time in the frame, with a tape
\* read to its end.
C17_Witness ==
    /\ hpc = "resume"
    /\ nTraps = 2
    /\ CountOp(calls, "trapTapeLoad") = 2
    /\ tape.attached
    /\ Len(tape.blocks) = 2
    /\ tape.next = 2
    /\ status = StatusTapeTrap
    /\ outbox = <<Posted("ready", 0, FALSE)>>

-----------------------------------------------------------------------------
(* Claims about loadSnapshot, checked under Spec *)

\* A loadSnapshot message has just been handled.
SnapshotLoaded == hpc = "idle" /\ cur.message = "loadSnapshot"

\* The snapshot that was loaded: the one of the model the core now has.
LoadedSnapshot == CHOOSE sn \in Snapshots : sn.model = core.machineType

\* Pages of a snapshot, in ascending order.
RECURSIVE Ascending(_)
Ascending(set) ==
    IF set = {} THEN <<>>
    ELSE LET least == CHOOSE x \in set : \A y \in set : x <= y
         IN  <<least>> \o Ascending(set \ {least})

FirstIndex(log, op) ==
    LET at == {i \in 1 .. Len(log) : log[i].op = op}
    IN  CHOOSE i \in at : \A j \in at : i <= j

\* C11: loadSnapshot sets the machine model, then copies every supplied
\* memory page, then sets the 12 register pairs in the order of their slots
\* (AF, BC, DE, HL, AF', BC', DE', HL', IX, IY, SP, IR), then PC, IFF1, IFF2,
\* the interrupt mode and halted, then writes the border port 0x00FE, then the
\* paging port 0x7FFD only when the model is not 48K, and sets the cycle
\* counter last.
C11_SnapshotOrder ==
    SnapshotLoaded
    => LET sn == LoadedSnapshot
           pages == Ascending(DOMAIN sn.memoryPages)
           np == Len(pages)
           names == <<"AF", "BC", "DE", "HL", "AF_", "BC_", "DE_", "HL_",
                      "IX", "IY", "SP", "IR">>
           tail == IF sn.model = 48 THEN 0 ELSE 1
       IN  /\ Len(calls) = 1 + np + 12 + 6 + tail + 1
           /\ calls[1] = Call("setMachineType", sn.model, 0)
           /\ \A k \in 1 .. np :
                 calls[1 + k] = Call("loadMemoryPage", pages[k],
                                     Len(sn.memoryPages[pages[k]]))
           /\ \A k \in 1 .. 12 :
                 calls[1 + np + k] =
                     Call("registerPairs", k - 1, sn.registers[names[k]])
           /\ calls[np + 14] = Call("setPC", sn.registers.PC, 0)
           /\ calls[np + 15] = Call("setIFF1", sn.registers.iff1, 0)
           /\ calls[np + 16] = Call("setIFF2", sn.registers.iff2, 0)
           /\ calls[np + 17] = Call("setIM", sn.registers.im, 0)
           /\ calls[np + 18].op = "setHalted"
           /\ calls[np + 19] = Call("writePort", 254, sn.ulaState.borderColour)
           /\ sn.model # 48
                 => calls[np + 20] = Call("writePort", 32765,
                                          sn.ulaState.pagingFlags)
           /\ calls[Len(calls)] = Call("setTStates", sn.tstates, 0)
           /\ FirstIndex(calls, "setMachineType") < FirstIndex(calls, "writePort")
           /\ \A i, j \in 1 .. Len(calls) :
                 (calls[i].op = "loadMemoryPage"
                    /\ calls[j].op \notin {"setMachineType", "loadMemoryPage"})
                 => i < j

\* The 128K snapshot loaded: both ports written, the paging port second.
C11_Witness ==
    /\ SnapshotLoaded
    /\ core.machineType = 128
    /\ Len(calls) = 23
    /\ calls[2] = Call("loadMemoryPage", 0, 2)
    /\ calls[3] = Call("loadMemoryPage", 7, 1)
    /\ calls[21] = Call("writePort", 254, 2)
    /\ calls[22] = Call("writePort", 32765, 16)

\* C12: after loadSnapshot, the register pairs read back as the snapshot's
\* register values (as 16-bit quantities), PC, IFF1, IFF2, the interrupt
\* mode, the halted flag and the cycle counter as the snapshot's, and page p
\* of the snapshot is found in machine memory from offset p * 0x4000 on.
C12_SnapshotRoundTrip ==
    SnapshotLoaded
    => LET sn == LoadedSnapshot
           names == <<"AF", "BC", "DE", "HL", "AF_", "BC_", "DE_", "HL_",
                      "IX", "IY", "SP", "IR">>
       IN  /\ \A k \in 1 .. 12 :
                 registerPairs[k - 1] = sn.registers[names[k]] % 65536
           /\ core.pc = sn.registers.PC
           /\ core.iff1 = sn.registers.iff1
           /\ core.iff2 = sn.registers.iff2
           /\ core.im = sn.registers.im
           /\ core.halted = (sn.halted \notin {0, -1})
           /\ core.tstates = sn.tstates
           /\ \A p \in DOMAIN sn.memoryPages :
                 \A j \in 1 .. Len(sn.memoryPages[p]) :
                    /\ (p * 16384) + (j - 1) \in DOMAIN memoryData
                    /\ memoryData[(p * 16384) + (j - 1)] = sn.memoryPages[p][j]

\* The 48K snapshot loaded over the 128K one: registers, flags and the pages
\* 0, 2 and 5 are those of the 48K snapshot, page 7 is still the other's.
C12_Witness ==
    /\ SnapshotLoaded
    /\ core.machineType = 48
    /\ registerPairs[0] = 4660
    /\ registerPairs[10] = 65535
    /\ core.pc = 4608
    /\ core.halted = FALSE
    /\ core.tstates = 100
    /\ memoryData[0] = 4
    /\ memoryData[1] = 5
    /\ memoryData[32768] = 3
    /\ memoryData[81920] = 1
    /\ 114688 \in DOMAIN memoryData
    /\ memoryData[114688] = 9

-----------------------------------------------------------------------------
(* Claims about the frameCompleted response, checked under Spec *)

\* C13: the frameCompleted response of a request carries the request's
\* frame buffer and, whenever the request held a pair of audio buffers (of
\* any length, zero included), both audio buffers.
C13_BuffersReturned ==
    FrameDone
    => outbox[Len(outbox)] =
           Posted("frameCompleted", cur.frameBuffer, cur.hasAudio)

IsFrameCompleted(m) == m.message = "frameCompleted"
FrameResponses == SelectSeq(outbox, IsFrameCompleted)
InFlight == hpc # "idle"

\* C14: at most one frame is in flight and the responses come in the order
\* of acceptance: the n-th frameCompleted carries the frame buffer of the
\* n-th accepted runFrame request, at most one accepted request is without
\* its response (the one in flight, or the one that ended in the fatal
\* stop), and while a frame is in flight the message at hand is still the
\* frame's own request, the last message taken.
C14_OneFrameInOrder ==
    /\ Len(FrameResponses) <= Len(accepted)
    /\ \A n \in 1 .. Len(FrameResponses) :
          FrameResponses[n].frameBuffer = accepted[n]
    /\ Len(accepted) - Len(FrameResponses) =
           (IF InFlight \/ stopped THEN 1 ELSE 0)
    /\ InFlight
       => /\ cur.message = "runFrame"
          /\ cur.frameBuffer = nMsgs
          /\ accepted[Len(accepted)] = cur.frameBuffer

\* Two frames, the requests being the first and the third message, have been
\* answered in this order.
C14_Witness ==
    /\ accepted = <<1, 3>>
    /\ Len(FrameResponses) = 2
    /\ FrameResponses[1].frameBuffer = 1
    /\ FrameResponses[2].frameBuffer = 3
    /\ hpc = "idle"

-----------------------------------------------------------------------------
(* Claims about the outcomes of the tape trap within a frame, under Spec *)

IsFailedTrap(c) == c.op = "registerPairs" /\ c.a = SlotAF /\ c.b % 2 = 0

\* The calls of the handler at hand in which trapTapeLoad cleared carry.
FailedTraps == SelectSeq(calls, IsFailedTrap)
FailedInFrame == cur.message = "runFrame" /\ FailedTraps # <<>>
RequestDropped == cur.message = "runFrame" /\ calls = <<>>

\* C15: a tape block that is rejected (wrong type, too few bytes, wrong
\* checksum) does not stop the worker and does not end the frame: after it
\* the frame loop goes on, the worker is only ever stopped with a fatal
\* status of the core at hand, a frame with such a failure is answered
\* with frameCompleted when the core reports status 0, and a runFrame request
\* is dropped only by a stopped worker.
C15_TapeFailuresRecoverable ==
    /\ (GotBlock /\ ~trap.success) => (~stopped /\ FailedInFrame)
    /\ stopped => status \notin {0, StatusTapeTrap}
    /\ (FailedInFrame /\ hpc = "idle" /\ status = 0)
       => /\ FrameDone
          /\ ~stopped
          /\ outbox[Len(outbox)].message = "frameCompleted"
          /\ outbox[Len(outbox)].frameBuffer = cur.frameBuffer
    /\ RequestDropped => stopped

\* A frame in which two blocks were rejected has been answered.
C15_Witness ==
    /\ FrameDone
    /\ Len(FailedTraps) = 2
    /\ ~stopped
    /\ outbox[Len(outbox)].frameBuffer = cur.frameBuffer

-----------------------------------------------------------------------------
(* Claims about the stopped flag, checked under Spec *)

IsFatalStatus(st) == st = 1 \/ st \notin {0, 1, 2}

\* C18: stopped is true only after the core has returned a fatal status (1,
\* or none of 0, 1, 2) in the handling of a runFrame request: it is set only
\* by that handler with such a status at hand, the status is still the last
\* one the core returned whenever stopped is true, and no step of any
\* handler takes stopped from true back to false.
C18_StoppedIsTerminal ==
    /\ [](stopped => (IsFatalStatus(status) /\ accepted # <<>>))
    /\ [][stopped => stopped']_vars
    /\ [][(~stopped /\ stopped')
          => /\ hpc = "dispatch"
             /\ cur.message = "runFrame"
             /\ IsFatalStatus(status)
             /\ status' = status]_vars

\* The worker was stopped by status 3 and has since handled a reset.
C18_Witness ==
    /\ stopped
    /\ status = 3
    /\ cur.message = "reset"
    /\ hpc = "idle"

-----------------------------------------------------------------------------
(* Claims about the tape position and the registers across the trap *)

IsBlockGot(c) == c.op = "getNextLoadableBlock" /\ c.a = 1
IsBlockAsked(c) == c.op = "getNextLoadableBlock"

\* The blocks handed out by the tape in the handler at hand.
BlocksGot == Len(SelectSeq(calls, IsBlockGot))

\* C19: a call of trapTapeLoad with a tape that has a block left takes
\* exactly one block, the next one, whether the block is loaded, verified or
\* rejected, and the tape stands one block further; with no tape, or none
\* left, the tape is as before.  In the first frame run, the position of the
\* tape is the number of trap hits that found a block.
C19_OneBlockPerTrap ==
    /\ TrapReturned
       => LET tp == trap.before.tape
          IN  IF tp.attached /\ tp.next < Len(tp.blocks)
              THEN /\ trap.ran
                   /\ Block0 = tp.blocks[tp.next + 1]
                   /\ tape = [tp EXCEPT !.next = tp.next + 1]
                   /\ Len(SelectSeq(LastTrapCalls, IsBlockAsked)) = 1
              ELSE /\ ~trap.ran
                   /\ tape = tp
                   /\ Len(SelectSeq(LastTrapCalls, IsBlockAsked)) =
                          (IF tp.attached THEN 1 ELSE 0)
    /\ (FrameHandled /\ Len(accepted) = 1 /\ tape.attached)
       => tape.next = BlocksGot
    /\ (FrameHandled /\ ~tape.attached) => BlocksGot = 0

\* Two trap hits in one frame on a tape of two blocks: the first block was
\* rejected, the second has just been taken, and the tape is at its end.
C19_Witness ==
    /\ TrapReturned
    /\ Len(accepted) = 1
    /\ Len(FailedTraps) >= 1
    /\ BlocksGot = 2
    /\ tape.next = 2
    /\ trap.before.tape.next = 1
    /\ Block0 = tape.blocks[2]

IsRegisterWrite(c) == c.op = "registerPairs"

\* C20: across a call of trapTapeLoad the register pairs 1 to 11, among them
\* DE (2), AF' (4) and IX (8), and the bits 1 to 15 of AF keep their values,
\* whatever the outcome; when a block was taken the only write to the
\* register file is one write of AF, and with no block there is none.
C20_OnlyCarryWritten ==
    TrapReturned
    => LET before == trap.before.registerPairs
       IN  /\ \A i \in 1 .. (NumRegisterPairs - 1) :
                 registerPairs[i] = before[i]
           /\ registerPairs[SlotAF] \div 2 = before[SlotAF] \div 2
           /\ registerPairs[SlotAF] \in 0 .. 65535
           /\ LET writes == SelectSeq(LastTrapCalls, IsRegisterWrite)
              IN  IF trap.ran
                  THEN /\ Len(writes) = 1
                       /\ writes[1].a = SlotAF
                       /\ writes[1].b = registerPairs[SlotAF]
                       /\ CarryNow = (IF trap.success THEN 1 ELSE 0)
                  ELSE /\ writes = <<>>
                       /\ registerPairs = before

\* A load that copied two bytes from the top address on and set a carry
\* that was clear: AF went from 0x44 to 0x45 and IX, DE and AF' are as they were.
C20_Witness ==
    /\ GotBlock
    /\ trap.success
    /\ trap.loadedBytes = 2
    /\ trap.before.registerPairs[SlotAF] = 68
    /\ registerPairs[SlotAF] = 69
    /\ registerPairs[SlotIX] = 65535
    /\ registerPairs[SlotDE] = 2
    /\ registerPairs[SlotAF_] = trap.before.registerPairs[SlotAF_]
    /\ trap.addr = 1

====
